---- MODULE Spec2Model ----
(***************************************************************************)
(* Model of spikesorters/waveclus/waveclus.py: the WaveClus sorter adapter *)
(* (installation check, path setter, recording export, parameter           *)
(* translation, script generation, launch, wait and result checks).        *)
(*                                                                         *)
(* Strings the code inspects character by character (paths, sys.platform)  *)
(* are sequences of one-character strings.  A file-system path is the      *)
(* sequence of its components; a component is a string of that kind.       *)
(* File names the code builds as a whole ("wave_clus.m", "raw1.mat") are   *)
(* one-token components.  An Optional[str] is <<>> (None) or <<s>>.        *)
(***************************************************************************)
EXTENDS Integers, Sequences, FiniteSets, TLC

VARIABLES
    waveclus_path,    \* WaveClusSorter.waveclus_path (class attribute), Optional[str]
    environ,          \* os.environ.get('WAVECLUS_PATH'), Optional[str]
    last_set,         \* history: argument of the latest set_waveclus_path call, Optional[str]
    files,            \* the file system: path |-> content of each regular file
    dirs,             \* the file system: the set of directories
    params,           \* self.params of the sorter instance (ordered mapping)
    default_params,   \* WaveClusSorter._default_params (class attribute)
    platform,         \* sys.platform
    recording,        \* the recording handed to the sorter
    pc,               \* stage of the current run
    error,            \* exception the current run raised, NoError if none
    proc,             \* launcher subprocess: "none", "running" or "exited"
    retcode,          \* exit code of the launcher subprocess (-1 before it exits)
    written,          \* history: paths written during the current run
    launches,         \* history: number of shell_cmd.start() calls of the current run
    run,              \* number of the current run of this sorter instance
    emitted,          \* history: the parameter block of each run, in run order
    arg_path,         \* argument of a direct check_if_installed call, Optional[str]
    result            \* result of that call: "none", "True" or "False"

vars == <<waveclus_path, environ, last_set, files, dirs, params, default_params,
          platform, recording, pc, error, proc, retcode, written, launches, run,
          emitted, arg_path, result>>

-----------------------------------------------------------------------------
(* Bounds of the model *)

\* runs of one sorter instance (the caller re-invoking the pipeline)
MaxRuns == 2
\* channels of a recording
MaxChannels == 2
\* length of the path strings given to check_if_installed directly
MaxLen == 3

-----------------------------------------------------------------------------
(* Strings and paths *)

None == <<>>
Some(s) == <<s>>

QUOTE == "\""
SEP == "/"

\* str.startswith(prefix)
startswith(s, prefix) ==
    /\ Len(s) >= Len(prefix)
    /\ SubSeq(s, 1, Len(prefix)) = prefix

\* the Python slice s[1:-1]
slice_1_m1(s) == SubSeq(s, 2, Len(s) - 1)

\* `sub in s` on strings
contains(s, sub) ==
    \E i \in 1..(Len(s) - Len(sub) + 1) : SubSeq(s, i, i + Len(sub) - 1) = sub

\* the components of a path string: split at "/", empty components dropped
\* (pathlib and the operating system both collapse repeated and trailing "/")
RECURSIVE components(_)
components(s) ==
    IF s = <<>> THEN <<>>
    ELSE IF Head(s) = SEP THEN components(Tail(s))
    ELSE LET n == IF \E i \in 1..Len(s) : s[i] = SEP
                  THEN (CHOOSE i \in 1..Len(s) :
                            /\ s[i] = SEP
                            /\ \A j \in 1..(i - 1) : s[j] # SEP) - 1
                  ELSE Len(s)
         IN <<SubSeq(s, 1, n)>> \o components(SubSeq(s, n + 1, Len(s)))

is_absolute(s) == s # <<>> /\ Head(s) = SEP

\* the path string of a sequence of components below the root
RECURSIVE render(_)
render(cs) ==
    IF cs = <<>> THEN <<>> ELSE <<SEP>> \o Head(cs) \o render(Tail(cs))

\* the working directory of the process, /w
cwd == << <<"w">> >>

\* the file-system location a path string names, as the operating system
\* resolves it: relative paths start at the working directory
resolve(s) == IF is_absolute(s) THEN components(s) ELSE cwd \o components(s)

\* str(Path(s).absolute())
absolute(s) == IF resolve(s) = <<>> THEN <<SEP>> ELSE render(resolve(s))

\* os.path.join(p, name) for a file name without separators
os_path_join(p, name) ==
    IF p = <<>> \/ p[Len(p)] = SEP THEN p \o name ELSE p \o <<SEP>> \o name

MARKER == <<"wave_clus.m">>
VERSION_TXT == <<"version.txt">>

is_file(fs, path) == path \in DOMAIN fs

-----------------------------------------------------------------------------
(* Installation locator *)

\* check_if_installed(waveclus_path) against the file system fs
check_if_installed(path, fs) ==
    IF path = None THEN FALSE
    ELSE LET s == path[1]
             stripped == IF startswith(s, <<QUOTE>>) THEN slice_1_m1(s) ELSE s
             abs == absolute(stripped)
         IN is_file(fs, resolve(abs) \o <<MARKER>>)

\* a plausible slip: the environment variable is tested, not the class attribute
is_installed_fromEnv == check_if_installed(environ, files)

\* WaveClusSorter.is_installed()
is_installed == check_if_installed(waveclus_path, files)

\* WaveClusSorter.get_sorter_version(): the first line of version.txt below
\* the WAVECLUS_PATH environment variable; open() raises if it is missing
get_sorter_version ==
    IF environ = None THEN "unknown"
    ELSE LET f == resolve(os_path_join(environ[1], VERSION_TXT))
         IN IF is_file(files, f) THEN files[f].line ELSE "FileNotFoundError"

-----------------------------------------------------------------------------
(* Parameter values and the ordered mapping (a Python dict) *)

\* a Python value: t is its type, the field of that type holds it
IntV(n) == [t |-> "int", i |-> n, s |-> "", b |-> FALSE]
\* a float, held as its Python text
FloatV(txt) == [t |-> "float", i |-> 0, s |-> txt, b |-> FALSE]
StrV(txt) == [t |-> "str", i |-> 0, s |-> txt, b |-> FALSE]
BoolV(v) == [t |-> "bool", i |-> 0, s |-> "", b |-> v]

Item(key, val) == [k |-> key, v |-> val]

keys(d) == {d[n].k : n \in DOMAIN d}
has_key(d, key) == key \in keys(d)

\* d[key]
get(d, key) == d[CHOOSE n \in DOMAIN d : d[n].k = key].v

\* d[key] = val: an existing key keeps its position, a new key goes last
set_item(d, key, val) ==
    IF has_key(d, key)
    THEN [n \in DOMAIN d |-> IF d[n].k = key THEN Item(key, val) ELSE d[n]]
    ELSE Append(d, Item(key, val))

\* del d[key]
RECURSIVE del_item(_, _)
del_item(d, key) ==
    IF d = <<>> THEN <<>>
    ELSE IF Head(d).k = key THEN Tail(d)
    ELSE <<Head(d)>> \o del_item(Tail(d), key)

\* WaveClusSorter._default_params
_default_params ==
    << Item("detect_threshold", IntV(5)),
       Item("detect_sign", IntV(-1)),
       Item("feature_type", StrV("wav")),
       Item("scales", IntV(4)),
       Item("min_clus", IntV(20)),
       Item("maxtemp", FloatV("0.251")),
       Item("template_sdnum", IntV(3)),
       Item("enable_detect_filter", BoolV(TRUE)),
       Item("enable_sort_filter", BoolV(TRUE)),
       Item("detect_filter_fmin", IntV(300)),
       Item("detect_filter_fmax", IntV(3000)),
       Item("detect_filter_order", IntV(4)),
       Item("sort_filter_fmin", IntV(300)),
       Item("sort_filter_fmax", IntV(3000)),
       Item("sort_filter_order", IntV(2)),
       Item("mintemp", IntV(0)),
       Item("w_pre", IntV(20)),
       Item("w_post", IntV(44)),
       Item("alignment_window", IntV(10)),
       Item("stdmax", IntV(50)),
       Item("max_spk", IntV(40000)),
       Item("ref_ms", FloatV("1.5")),
       Item("interpolation", BoolV(TRUE)) >>

\* par_renames
par_renames ==
    << Item("detect_sign", "detection"), Item("detect_threshold", "stdmin"),
       Item("feature_type", "features"), Item("detect_filter_fmin", "detect_fmin"),
       Item("detect_filter_fmax", "detect_fmax"), Item("detect_filter_order", "detect_order"),
       Item("sort_filter_fmin", "sort_fmin"), Item("sort_filter_fmax", "sort_fmax"),
       Item("sort_filter_order", "sort_order") >>

-----------------------------------------------------------------------------
(* Parameter translator *)

\* lines 153-158: the sign code becomes a token
recode_sign(p) ==
    IF get(p, "detect_sign").i < 0 THEN set_item(p, "detect_sign", StrV("neg"))
    ELSE IF get(p, "detect_sign").i > 0 THEN set_item(p, "detect_sign", StrV("pos"))
    ELSE set_item(p, "detect_sign", StrV("both"))

\* a plausible slip: the enable flag is dropped without zeroing the order
consume_enable_keepOrder(p, flag, order) == del_item(p, flag)

\* lines 160-166: a disabled stage gets filter order 0; the flag is dropped
consume_enable(p, flag, order) ==
    del_item(IF ~get(p, flag).b THEN set_item(p, order, IntV(0)) ELSE p, flag)

\* lines 168-171
recode_interpolation(p) ==
    IF get(p, "interpolation").b THEN set_item(p, "interpolation", StrV("y"))
    ELSE set_item(p, "interpolation", StrV("n"))

\* lines 153-174: the translated mapping, built on the copy p of self.params
translate(p, samplerate) ==
    LET p1 == recode_sign(p)
        p2 == consume_enable(p1, "enable_detect_filter", "detect_filter_order")
        p3 == consume_enable(p2, "enable_sort_filter", "sort_filter_order")
        p4 == recode_interpolation(p3)
    IN set_item(p4, "sr", samplerate)

\* lines 193-196: the literal of a value
format_value(v) ==
    IF v.t = "str" THEN "'" \o v.s \o "'"
    ELSE IF v.t = "bool" THEN (IF v.b THEN "true" ELSE "false")
    ELSE IF v.t = "int" THEN ToString(v.i)
    ELSE v.s

\* lines 197-198
rename(key) == IF has_key(par_renames, key) THEN get(par_renames, key) ELSE key

\* lines 186-199: par_str, as the sequence of its 'par.<key> = <value>;' assignments
par_str(p) == [n \in DOMAIN p |-> [key |-> rename(p[n].k), value |-> format_value(p[n].v)]]

\* a plausible slip: p is self.params itself, not a copy
params_after_run_noCopy(self_params, samplerate) == translate(self_params, samplerate)

\* line 147: p = self.params.copy(), so the writes of lines 153-174 leave
\* self.params as it was
params_after_run(self_params, samplerate) == self_params

-----------------------------------------------------------------------------
(* The recording, the file system and the run context *)

\* channel ids a recording may report: not contiguous, not starting at 1
ChannelIds == {2, 5, 9}

\* the samples of each channel (two frames)
signal == [c \in ChannelIds |-> <<10 * c, 10 * c + 1>>]

\* recording.get_traces(channel_ids=ids): one row per requested channel
get_traces(rec, ids) == [n \in DOMAIN ids |-> rec.traces[ids[n]]]

get_num_channels(rec) == Len(rec.channel_ids)

\* recordings of 1..MaxChannels channels, in every order of distinct ids
Recordings ==
    { [channel_ids |-> ids, sampling_frequency |-> FloatV("30000.0"), traces |-> signal] :
        ids \in { q \in UNION { [1..n -> ChannelIds] : n \in 1..MaxChannels } :
                    \A i, j \in DOMAIN q : i # j => q[i] # q[j] } }

\* output_folder of the sorter instance, /o (tmpdir in _run is the same path)
output_folder == << <<"o">> >>

raw_name(k) == <<"raw" \o ToString(k) \o ".mat">>
raw_path(folder, k) == folder \o <<raw_name(k)>>
script_path(folder) == folder \o << <<"run_waveclus.m">> >>
launcher_path(folder) == folder \o << <<"run_waveclus">> >>
log_path(folder) == folder \o << <<"waveclus.log">> >>
result_fname(folder) == folder \o << <<"times_results.mat">> >>

\* a file is created or overwritten
write_file(fs, path, content) ==
    [q \in DOMAIN fs \cup {path} |-> IF q = path THEN content ELSE fs[q]]

\* os.path.exists(path)
os_path_exists(fs, ds, path) == path \in DOMAIN fs \/ path \in ds

\* os.makedirs(path, exist_ok=True)
makedirs(ds, path) == ds \cup {SubSeq(path, 1, n) : n \in 1..Len(path)}

marker_file == [kind |-> "marker"]
version_file(txt) == [kind |-> "version", line |-> txt]

\* the installations on disk: /a and /w/a hold wave_clus.m and version.txt,
\* /b holds version.txt only
InstallFiles ==
    LET a == <<"a">>  b == <<"b">>  w == <<"w">>
    IN  (<<a, MARKER>> :> marker_file) @@ (<<a, VERSION_TXT>> :> version_file("1.0")) @@
        (<<w, a, MARKER>> :> marker_file) @@ (<<w, a, VERSION_TXT>> :> version_file("2.0")) @@
        (<<b, VERSION_TXT>> :> version_file("0.9"))

\* values of WAVECLUS_PATH when the class is loaded: unset, /a, "/a" in
\* quotes, /b
LoadTimeEnv ==
    { None, Some(<<SEP, "a">>), Some(<<QUOTE, SEP, "a", QUOTE>>), Some(<<SEP, "b">>) }

\* arguments of set_waveclus_path: /a, a (relative), /b
SetPaths == { <<SEP, "a">>, <<"a">>, <<SEP, "b">> }

\* values of sys.platform
linux == <<"l", "i", "n", "u", "x">>
win32 == <<"w", "i", "n", "3", "2">>
cygwin == <<"c", "y", "g", "w", "i", "n">>
darwin == <<"d", "a", "r", "w", "i", "n">>
freebsd == <<"f", "r", "e", "e", "b", "s", "d">>
Platforms == {linux, win32, cygwin, darwin, freebsd}

NoError == [type |-> "none", msg |-> "", path |-> <<>>]
\* line 134
NotInstalled == [type |-> "Exception", msg |-> "installation_mesg", path |-> <<>>]
\* line 239
NonZeroExit ==
    [type |-> "Exception", msg |-> "waveclus returned a non-zero exit code", path |-> <<>>]
\* line 243
ResultMissing(fname) ==
    [type |-> "Exception", msg |-> "Result file does not exist: ", path |-> fname]

-----------------------------------------------------------------------------
(* Initial states *)

\* self.params: the defaults, with the values the user set for the sign, the
\* two filter stages and the interpolation
ParamChoices ==
    { set_item(set_item(set_item(set_item(set_item(set_item(_default_params,
          "detect_sign", IntV(sg)),
          "enable_detect_filter", BoolV(ed)),
          "enable_sort_filter", BoolV(es)),
          "detect_filter_order", IntV(od)),
          "sort_filter_order", IntV(os)),
          "interpolation", BoolV(ip)) :
        sg \in {-1, 0, 1}, ed \in BOOLEAN, es \in BOOLEAN,
        od \in {4, 1}, os \in {2, 3}, ip \in BOOLEAN }

InitDirs == UNION { {SubSeq(f, 1, n) : n \in 1..(Len(f) - 1)} : f \in DOMAIN InstallFiles }

\* a recording with channel ids 5, 2
TwoChannels ==
    [channel_ids |-> <<5, 2>>, sampling_frequency |-> FloatV("30000.0"), traces |-> signal]

\* the adapter after the class is loaded and a sorter is constructed
InitRun ==
    /\ files = InstallFiles
    /\ dirs = InitDirs
    /\ default_params = _default_params
    /\ pc = "NotStarted"
    /\ error = NoError
    /\ proc = "none"
    /\ retcode = -1
    /\ written = {}
    /\ launches = 0
    /\ run = 1
    /\ emitted = <<>>
    /\ last_set = None
    /\ arg_path = None
    /\ result = "none"

\* every load-time value of WAVECLUS_PATH, every recording
Init ==
    /\ InitRun
    /\ environ \in LoadTimeEnv
    /\ waveclus_path = environ
    /\ params = _default_params
    /\ platform = linux
    /\ recording \in Recordings

\* every configuration of the sign, the filter stages and the interpolation
InitParams ==
    /\ InitRun
    /\ environ = Some(<<SEP, "a">>)
    /\ waveclus_path = environ
    /\ params \in ParamChoices
    /\ platform = linux
    /\ recording = TwoChannels

\* every platform
InitPlatform ==
    /\ InitRun
    /\ environ = Some(<<SEP, "a">>)
    /\ waveclus_path = environ
    /\ params = _default_params
    /\ platform \in Platforms
    /\ recording = TwoChannels

\* the characters of the path strings given to check_if_installed
PathChars == {QUOTE, SEP, "a"}

\* every string of at most MaxLen characters
PathStrings == UNION { [1..n -> PathChars] : n \in 0..MaxLen }

\* the directories that may hold wave_clus.m: /, /a, /w, /w/a
MarkerDirs == { <<>>, << <<"a">> >>, << <<"w">> >>, << <<"w">>, <<"a">> >> }

\* a direct call of check_if_installed: any argument, any placement of the
\* marker file
InitInstalled ==
    /\ arg_path \in {None} \cup {Some(str) : str \in PathStrings}
    /\ \E held \in SUBSET MarkerDirs : files = [f \in {d \o <<MARKER>> : d \in held} |-> marker_file]
    /\ dirs = MarkerDirs
    /\ result = "none"
    /\ environ = None
    /\ waveclus_path = None
    /\ last_set = None
    /\ params = _default_params
    /\ default_params = _default_params
    /\ platform = linux
    /\ recording = TwoChannels
    /\ pc = "NotStarted"
    /\ error = NoError
    /\ proc = "none"
    /\ retcode = -1
    /\ written = {}
    /\ launches = 0
    /\ run = 1
    /\ emitted = <<>>

-----------------------------------------------------------------------------
(* Operations *)

Idle == pc \in {"NotStarted", "Succeeded", "Failed"}

\* set_waveclus_path(p).  The try block (the print, then the assignment to
\* os.environ) raises for some paths and streams: print raises when stdout
\* cannot encode the path or is closed, the assignment raises on an embedded
\* NUL.  env_ok says whether the block completes; the except clause only prints.
set_waveclus_path(p, env_ok) ==
    /\ Idle
    /\ waveclus_path' = Some(absolute(p))
    /\ environ' = IF env_ok THEN Some(absolute(p)) ELSE environ
    /\ last_set' = Some(p)
    /\ UNCHANGED <<files, dirs, params, default_params, platform, recording, pc, error,
                   proc, retcode, written, launches, run, emitted, arg_path, result>>

\* a plausible slip: the file is named by the channel id, not by its position
export_files_byId(fs, rec, folder) ==
    LET ids == rec.channel_ids
        paths == {raw_path(folder, ids[n]) : n \in DOMAIN ids}
        content(n) == [kind |-> "mat",
                       data |-> get_traces(rec, <<ids[n]>>),
                       sr |-> rec.sampling_frequency]
    IN [q \in DOMAIN fs \cup paths |->
            IF q \in paths
            THEN content(CHOOSE n \in DOMAIN ids : raw_path(folder, ids[n]) = q)
            ELSE fs[q]]

\* the files of lines 138-141: raw<nch+1>.mat for the channel at position nch
export_files(fs, rec, folder) ==
    LET ids == rec.channel_ids
        paths == {raw_path(folder, n) : n \in DOMAIN ids}
        content(n) == [kind |-> "mat",
                       data |-> get_traces(rec, <<ids[n]>>),
                       sr |-> rec.sampling_frequency]
    IN [q \in DOMAIN fs \cup paths |->
            IF q \in paths
            THEN content(CHOOSE n \in DOMAIN ids : raw_path(folder, n) = q)
            ELSE fs[q]]

\* _setup_recording(recording, output_folder).  The caller runs it first and
\* _run after it, so the stages of pc follow the caller's order.
setup_recording ==
    /\ pc = "NotStarted"
    /\ IF ~is_installed
       THEN /\ pc' = "Failed"
            /\ error' = NotInstalled
            /\ UNCHANGED <<files, dirs, written>>
       ELSE /\ dirs' = makedirs(dirs, output_folder)
            /\ files' = export_files(files, recording, output_folder)
            /\ written' = written \cup
                   {raw_path(output_folder, n) : n \in DOMAIN recording.channel_ids}
            /\ pc' = "Exported"
            /\ UNCHANGED error
    /\ UNCHANGED <<waveclus_path, environ, last_set, params, default_params, platform,
                   recording, proc, retcode, launches, run, emitted, arg_path, result>>

\* '{}'.format(x) of an Optional[str]
format_optional(o) == IF o = None THEN <<"N", "o", "n", "e">> ELSE o[1]

\* lines 203-216: the tool script
tool_script(path, parameters, tmpdir, nChans) ==
    [kind |-> "m", addpath |-> format_optional(path), source_path |-> "source_dir",
     parameters |-> parameters, tmpdir |-> tmpdir, nChans |-> nChans]

\* _run, lines 144-219: translate the parameters and write run_waveclus.m.
\* The prints (the warning for an already filtered recording, the verbose
\* lines) change no state; recover_recording hands back the recording.
run_write_script ==
    /\ pc = "Exported"
    /\ LET samplerate == recording.sampling_frequency
           p == translate(params, samplerate)
           tmpdir == output_folder
           cmd == tool_script(waveclus_path, par_str(p), tmpdir, get_num_channels(recording))
       IN /\ params' = params_after_run(params, samplerate)
          /\ dirs' = makedirs(dirs, tmpdir)
          /\ files' = write_file(files, script_path(tmpdir), cmd)
          /\ written' = written \cup {script_path(tmpdir)}
          /\ emitted' = Append(emitted, par_str(p))
    /\ pc' = "Scripted"
    /\ UNCHANGED <<waveclus_path, environ, last_set, default_params, platform, recording,
                   error, proc, retcode, launches, run, arg_path, result>>

\* a plausible slip: the 'darwin' exclusion is left out
is_windows_noDarwin(plat) == contains(plat, <<"w", "i", "n">>)

\* line 221: 'win' in sys.platform and sys.platform != 'darwin'
is_windows(plat) == contains(plat, <<"w", "i", "n">>) /\ plat # darwin

\* lines 221-231: the launcher script
launcher(plat, tmpdir) ==
    IF is_windows(plat)
    THEN [kind |-> "launcher", shebang |-> FALSE, cd |-> tmpdir, cd_quoted |-> FALSE,
          argv |-> <<"matlab", "-nosplash", "-wait", "-log", "-r", "run_waveclus">>]
    ELSE [kind |-> "launcher", shebang |-> TRUE, cd |-> tmpdir, cd_quoted |-> TRUE,
          argv |-> <<"matlab", "-nosplash", "-nodisplay", "-log", "-r", "run_waveclus">>]

\* ShellScript.start(): the script is written to script_path, the log is
\* opened and the subprocess is started
shell_start(fs, path, content, log) ==
    write_file(write_file(fs, path, content), log, [kind |-> "log"])

\* a plausible slip: the launcher is started before run_waveclus.m is written
run_start_early ==
    /\ pc = "Exported"
    /\ files' = shell_start(files, launcher_path(output_folder),
                            launcher(platform, output_folder), log_path(output_folder))
    /\ written' = written \cup {launcher_path(output_folder), log_path(output_folder)}
    /\ proc' = "running"
    /\ launches' = launches + 1
    /\ pc' = "Running"
    /\ UNCHANGED <<waveclus_path, environ, last_set, dirs, params, default_params, platform,
                   recording, error, retcode, run, emitted, arg_path, result>>

\* _run, lines 221-234: compose the launcher and start it
run_start ==
    /\ pc = "Scripted"
    /\ files' = shell_start(files, launcher_path(output_folder),
                            launcher(platform, output_folder), log_path(output_folder))
    /\ written' = written \cup {launcher_path(output_folder), log_path(output_folder)}
    /\ proc' = "running"
    /\ launches' = launches + 1
    /\ pc' = "Running"
    /\ UNCHANGED <<waveclus_path, environ, last_set, dirs, params, default_params, platform,
                   recording, error, retcode, run, emitted, arg_path, result>>

\* the launcher subprocess (matlab running run_waveclus.m) ends: the tool
\* wrote times_results.mat or not, and quits with a code (quit(1) from the
\* catch block, quit(0) after it, or the interpreter's own failure)
matlab_exit(code, wrote) ==
    /\ proc = "running"
    /\ proc' = "exited"
    /\ retcode' = code
    /\ IF wrote
       THEN /\ files' = write_file(files, result_fname(output_folder), [kind |-> "result"])
            /\ written' = written \cup {result_fname(output_folder)}
       ELSE UNCHANGED <<files, written>>
    /\ UNCHANGED <<waveclus_path, environ, last_set, dirs, params, default_params, platform,
                   recording, pc, error, launches, run, emitted, arg_path, result>>

\* ShellScript.wait() returns the exit code once the subprocess has exited
wait_returns == proc = "exited"

\* a plausible slip: the result file is not looked for
result_check_skipped(code, fs, ds, fname) ==
    IF code # 0 THEN NonZeroExit ELSE NoError

\* lines 238-243: the exception the result checks raise, NoError if none
result_check(code, fs, ds, fname) ==
    IF code # 0 THEN NonZeroExit
    ELSE IF ~os_path_exists(fs, ds, fname) THEN ResultMissing(fname)
    ELSE NoError

\* _run, lines 236-243: wait for the subprocess, then check its result
run_wait ==
    /\ pc = "Running"
    /\ wait_returns
    /\ error' = result_check(retcode, files, dirs, result_fname(output_folder))
    /\ pc' = IF error' = NoError THEN "Succeeded" ELSE "Failed"
    /\ UNCHANGED <<waveclus_path, environ, last_set, files, dirs, params, default_params,
                   platform, recording, proc, retcode, written, launches, run, emitted,
                   arg_path, result>>

\* the caller runs the pipeline again on the same sorter instance and
\* output folder
new_run ==
    /\ pc \in {"Succeeded", "Failed"}
    /\ run < MaxRuns
    /\ run' = run + 1
    /\ pc' = "NotStarted"
    /\ error' = NoError
    /\ proc' = "none"
    /\ retcode' = -1
    /\ written' = {}
    /\ launches' = 0
    /\ UNCHANGED <<waveclus_path, environ, last_set, files, dirs, params, default_params,
                   platform, recording, emitted, arg_path, result>>

Next ==
    \/ \E p \in SetPaths, env_ok \in BOOLEAN : set_waveclus_path(p, env_ok)
    \/ setup_recording
    \/ run_write_script
    \/ run_start
    \/ \E code \in {0, 1}, wrote \in BOOLEAN : matlab_exit(code, wrote)
    \/ run_wait
    \/ new_run

Spec == Init /\ [][Next]_vars

SpecParams == InitParams /\ [][Next]_vars

SpecPlatform == InitPlatform /\ [][Next]_vars

\* check_if_installed(arg_path) is called; it writes nothing
check_if_installed_call ==
    /\ result' = IF check_if_installed(arg_path, files) THEN "True" ELSE "False"
    /\ UNCHANGED <<waveclus_path, environ, last_set, files, dirs, params, default_params,
                   platform, recording, pc, error, proc, retcode, written, launches, run,
                   emitted, arg_path>>

NextInstalled == check_if_installed_call

SpecInstalled == InitInstalled /\ [][NextInstalled]_vars



-----------------------------------------------------------------------------
(* Claims *)

artifact_exists == os_path_exists(files, dirs, result_fname(output_folder))

\* the run has been through the result checks of lines 236-243
Checked == proc = "exited" /\ pc \in {"Succeeded", "Failed"}

\* C1: after the launcher exits, a non-zero exit code gives the external-tool
\* failure, exit code 0 without times_results.mat gives the missing-artifact
\* failure, the run completes without error only with exit code 0 and the
\* artifact present, and the exception tells the two failures apart.
C1_ResultGate ==
    Checked =>
        /\ retcode # 0 => (pc = "Failed" /\ error = NonZeroExit)
        /\ (retcode = 0 /\ ~artifact_exists) =>
               (pc = "Failed" /\ error = ResultMissing(result_fname(output_folder)))
        /\ pc = "Succeeded" => (retcode = 0 /\ artifact_exists /\ error = NoError)
        /\ pc = "Failed" => ((error.msg = NonZeroExit.msg) <=> (retcode # 0))

C1_Witness ==
    /\ Checked
    /\ retcode = 0
    /\ ~artifact_exists
    /\ error.msg = "Result file does not exist: "

\* C2: also when the working directory is reused by a later run, a run whose
\* subprocess exits 0 without writing times_results.mat during that run ends
\* in the missing-artifact failure, never in Succeeded.
C2_SuccessOnlyWithFreshArtifact ==
    (Checked /\ retcode = 0 /\ result_fname(output_folder) \notin written) =>
        (pc = "Failed" /\ error = ResultMissing(result_fname(output_folder)))

\* the configured path names an existing directory without wave_clus.m
LacksMarker ==
    /\ waveclus_path # None
    /\ resolve(waveclus_path[1]) \in dirs
    /\ ~is_file(files, resolve(waveclus_path[1]) \o <<MARKER>>)

\* C3: when the installation path is unset or is a directory without
\* wave_clus.m, is_installed is false and the run aborts with the
\* not-installed error before any write: no directory is created, no file is
\* written and the subprocess is not launched.
C3_NotInstalledAbortsBeforeWrites ==
    [][ (pc = "NotStarted" /\ pc' # pc /\ (waveclus_path = None \/ LacksMarker)) =>
            /\ ~is_installed
            /\ pc' = "Failed"
            /\ error' = NotInstalled
            /\ files' = files
            /\ dirs' = dirs
            /\ written' = {}
            /\ proc' = "none"
            /\ launches' = 0 ]_vars

C3_Witness ==
    /\ pc = "Failed"
    /\ error = NotInstalled
    /\ LacksMarker
    /\ output_folder \notin dirs
    /\ DOMAIN files = DOMAIN InstallFiles

\* identifiers of Python builds that run on Windows
WindowsFamily == {win32, cygwin}

launcher_written == launcher_path(output_folder) \in written

\* C4: on a platform whose identifier contains "darwin" the launcher is the
\* POSIX one (bash script, -nodisplay), not the Windows one (-wait); the
\* Windows launcher is written only on a Windows-family platform.
C4_DarwinIsPosix ==
    launcher_written =>
        LET l == files[launcher_path(output_folder)]
            windows == \E n \in DOMAIN l.argv : l.argv[n] = "-wait"
            posix == l.shebang /\ \E n \in DOMAIN l.argv : l.argv[n] = "-nodisplay"
        IN /\ windows # posix
           /\ contains(platform, darwin) => posix
           /\ windows => platform \in WindowsFamily

C4_Witness ==
    /\ launcher_written
    /\ platform = darwin
    /\ files[launcher_path(output_folder)].shebang

script_written == script_path(output_folder) \in written

\* the values of the assignments named key in a parameter block
values_of(block, key) == {block[n].value : n \in {m \in DOMAIN block : block[m].key = key}}
count_of(block, key) == Cardinality({m \in DOMAIN block : block[m].key = key})

\* C5: the emitted parameter block has no assignment named
\* enable_detect_filter, enable_sort_filter or detect_sign; it has exactly one
\* 'detection' assignment, 'neg' for -1, 'pos' for 1, 'both' for 0; and for
\* each stage the emitted order is 0 when the stage's enable flag is false and
\* the configured order when it is true.
C5_TranslatedBlock ==
    script_written =>
        LET block == files[script_path(output_folder)].parameters
            sign == get(params, "detect_sign").i
            order(flag, key) == IF get(params, flag).b THEN ToString(get(params, key).i)
                                ELSE "0"
        IN /\ count_of(block, "enable_detect_filter") = 0
           /\ count_of(block, "enable_sort_filter") = 0
           /\ count_of(block, "detect_sign") = 0
           /\ count_of(block, "detection") = 1
           /\ values_of(block, "detection") =
                  {IF sign = -1 THEN "'neg'" ELSE IF sign = 1 THEN "'pos'" ELSE "'both'"}
           /\ count_of(block, "detect_order") = 1
           /\ values_of(block, "detect_order") =
                  {order("enable_detect_filter", "detect_filter_order")}
           /\ count_of(block, "sort_order") = 1
           /\ values_of(block, "sort_order") =
                  {order("enable_sort_filter", "sort_filter_order")}

C5_Witness ==
    /\ script_written
    /\ get(params, "detect_sign").i = 0
    /\ ~get(params, "enable_detect_filter").b
    /\ get(params, "enable_sort_filter").b
    /\ get(params, "detect_filter_order").i = 4
    /\ values_of(files[script_path(output_folder)].parameters, "detect_order") = {"0"}
    /\ values_of(files[script_path(output_folder)].parameters, "sort_order") = {"3"}

\* the first line of version.txt in directory d; open() raises without it
version_in(d) ==
    IF is_file(files, d \o <<VERSION_TXT>>) THEN files[d \o <<VERSION_TXT>>].line
    ELSE "FileNotFoundError"

\* C6: after set_waveclus_path calls, every consumer uses the absolute form
\* of the most recently set path: is_installed tests wave_clus.m in it,
\* get_sorter_version reads version.txt from it (and is 'unknown' only when
\* no path is configured), the generated script adds it to the search path.
C6_OneEffectivePath ==
    last_set # None =>
        LET d == absolute(last_set[1])
        IN /\ is_installed = is_file(files, resolve(d) \o <<MARKER>>)
           /\ get_sorter_version = version_in(resolve(d))
           /\ script_written => files[script_path(output_folder)].addpath = d

\* the raw files the claim names: raw1.mat .. raw<n>.mat
RawPaths == {raw_path(output_folder, k) : k \in 1..get_num_channels(recording)}

\* C7: export writes exactly the files raw1.mat .. raw<n>.mat; raw<k>.mat
\* holds the full trace of the k-th channel in the recording's channel order
\* (named by position, never by channel id) and the sampling rate.
C7_ExportByPosition ==
    pc = "Exported" =>
        /\ written = RawPaths
        /\ \A k \in 1..get_num_channels(recording) :
              /\ raw_path(output_folder, k) \in DOMAIN files
              /\ files[raw_path(output_folder, k)].data =
                     <<recording.traces[recording.channel_ids[k]]>>
              /\ files[raw_path(output_folder, k)].sr = recording.sampling_frequency
        /\ \A c \in ChannelIds :
              c > get_num_channels(recording) => raw_path(output_folder, c) \notin DOMAIN files

C7_Witness ==
    /\ pc = "Exported"
    /\ recording.channel_ids = <<9, 2>>
    /\ files[raw_path(output_folder, 1)].data = <<signal[9]>>
    /\ files[raw_path(output_folder, 2)].data = <<signal[2]>>

\* the normalization the claim states: one enclosing pair of quotes is
\* stripped if and only if it is present
strip_enclosing_pair(str) ==
    IF Len(str) >= 2 /\ str[1] = QUOTE /\ str[Len(str)] = QUOTE
    THEN SubSeq(str, 2, Len(str) - 1)
    ELSE str

\* C8: check_if_installed(path) is false for None; otherwise it strips one
\* pair of enclosing quotes if and only if the pair is present, leaves every
\* other path unchanged, and is true iff wave_clus.m exists directly inside
\* the normalized path; it writes nothing.
C8_StripsOnlyEnclosingPair ==
    result # "none" =>
        /\ (result = "True") <=>
               /\ arg_path # None
               /\ is_file(files, resolve(strip_enclosing_pair(arg_path[1])) \o <<MARKER>>)
        /\ DOMAIN files \subseteq {d \o <<MARKER>> : d \in MarkerDirs}

\* the stage changes of one run, and the start of the next run
StageChanges ==
    { <<"NotStarted", "Exported">>, <<"Exported", "Scripted">>, <<"Scripted", "Running">>,
      <<"Running", "Succeeded">>, <<"Running", "Failed">>, <<"NotStarted", "Failed">>,
      <<"Succeeded", "NotStarted">>, <<"Failed", "NotStarted">> }

\* C9: a run goes NotStarted -> Exported -> Scripted -> Running ->
\* Succeeded or Failed without skipping a stage: the subprocess is started
\* only after every export file and the tool script are written, the result
\* checks come only after the subprocess has exited, the subprocess is
\* launched at most once per run, and Succeeded and Failed end the run.
C9_StageOrder ==
    /\ [] /\ proc # "none" => (RawPaths \subseteq written /\ script_written)
          /\ launches <= 1
          /\ launches = 1 <=> proc # "none"
          /\ (pc = "Succeeded" \/ (pc = "Failed" /\ error # NotInstalled)) => proc = "exited"
          /\ (pc = "Failed" /\ error = NotInstalled) => proc = "none"
          /\ pc = "Exported" => RawPaths \subseteq written
          /\ pc = "Scripted" => script_written
          /\ pc = "Running" => proc # "none"
    /\ [][ /\ pc' # pc => <<pc, pc'>> \in StageChanges
           /\ (pc \in {"Succeeded", "Failed"} /\ pc' # pc) => run' = run + 1
           /\ (pc \in {"Succeeded", "Failed"} /\ run' = run) =>
                  (proc' = proc /\ launches' = launches /\ files' = files /\ error' = error)
         ]_vars

C9_Witness ==
    /\ pc = "Succeeded"
    /\ run = 2
    /\ launches = 1
    /\ RawPaths \subseteq written

\* C10: _run translates a copy: after it, succeeded or failed, self.params
\* and the default schema are unchanged (the enable keys are present,
\* detect_sign is the integer, interpolation is the boolean, there is no 'sr'
\* key), and every run of the sorter emits the same parameter block in the
\* same key order.
C10_ParamsUntouched ==
    /\ default_params = _default_params
    /\ params \in ParamChoices
    /\ has_key(params, "enable_detect_filter")
    /\ has_key(params, "enable_sort_filter")
    /\ get(params, "detect_sign").t = "int"
    /\ get(params, "interpolation").t = "bool"
    /\ ~has_key(params, "sr")
    /\ \A m, n \in DOMAIN emitted : emitted[m] = emitted[n]

C10_Witness ==
    /\ Len(emitted) = 2
    /\ Checked
    /\ ~get(params, "enable_sort_filter").b
    /\ get(params, "detect_sign").i = 1

====
